---- MODULE Spec2Model ----
(***************************************************************************)
(* Model of cnv_profile.py: the clonal phylogeny (Phylogeny), the          *)
(* per-chromosome dual-allele layer ledger (Chromosome) and the event      *)
(* generation policy (CNV_Profile).                                        *)
(*                                                                         *)
(* Conventions.                                                            *)
(*  - An Interval of the intervaltree package is the record                *)
(*    [begin, end, data]; it is half-open, [begin, end).  An IntervalTree  *)
(*    is a SET of Intervals: adding an Interval equal to a stored one      *)
(*    (same begin, end and data) changes nothing.                          *)
(*  - An Event is the record [type, allele, cluster_num, cn_change].       *)
(*  - Python's None is written None (0); cluster ids start at 1.           *)
(*  - A CCF drawn by np.random.rand() lies in [0, 1).  CCFs are kept as    *)
(*    exact fixed-point numerators over CcfScale: the value k stands for   *)
(*    k / CcfScale, the root's CCF 1 is CcfScale.  Weighted copy numbers   *)
(*    of calc_full_cnv are therefore in units of 1 / CcfScale.             *)
(***************************************************************************)
EXTENDS Integers, Sequences, FiniteSets, Bags, TLC

\* ---------------------------------------------------------------- bounds
MaxSubclones == 2
CcfScale == 3
MaxEvents == 2
MaxArmEvents == 3
MaxPoisson == 1
MaxFocalLen == 4
MaxArmNum == 1
MaxFocalNum == 1
RatioScale == 2
ChromLen == 5

None == 0

VARIABLES
    num_subclones,   \* Phylogeny.num_subclones
    parents,         \* Phylogeny.parents / make_phylogeny's parent_dict
    ccfs,            \* Phylogeny.ccfs (numerators over CcfScale)
    unassigned,      \* make_phylogeny: deque of clusters without a parent
    parent_queue,    \* make_phylogeny: deque of parents awaiting children
    phy_pc,          \* "loop" | "done" | "IndexError"
    lin_node,        \* get_lineage: the local `node`
    lin_list,        \* get_lineage: the local `cluster_list`
    lin_pc,          \* "idle" | "walk" | "returned" | "KeyError"
    event_trees,     \* CNV_Profile.event_trees: contig -> Chromosome
    added,           \* history: bag of every Interval handed to add_seg
    n_events,        \* history: number of add_arm / add_focal calls made
    past_end,        \* history: some add_focal drew an end_pos past the contig end
    gen              \* add_cnv_events: inputs, loop position, call counts

vars == <<num_subclones, parents, ccfs, unassigned, parent_queue, phy_pc,
          lin_node, lin_list, lin_pc, event_trees, added, n_events, past_end, gen>>

phy_vars == <<num_subclones, parents, ccfs, unassigned, parent_queue, phy_pc>>
lin_vars == <<lin_node, lin_list, lin_pc>>
prof_vars == <<event_trees, added, n_events, past_end>>

\* ------------------------------------------------------------- utilities
Max(a, b) == IF a >= b THEN a ELSE b
Min(a, b) == IF a <= b THEN a ELSE b

Range(s) == {s[i] : i \in DOMAIN s}

RECURSIVE SumSet(_, _)
\* sum of f[x] over the finite set S
SumSet(S, f) ==
    IF S = {} THEN 0
    ELSE LET x == CHOOSE y \in S : TRUE IN f[x] + SumSet(S \ {x}, f)

RECURSIVE RemoveFirst(_, _)
\* deque.remove(c): drop the first occurrence of c
RemoveFirst(s, c) ==
    IF s = <<>> THEN <<>>
    ELSE IF Head(s) = c THEN Tail(s)
    ELSE <<Head(s)>> \o RemoveFirst(Tail(s), c)

RECURSIVE SortedDesc(_)
\* sorted(xs, reverse=True) of a sequence of numbers
SortedDesc(s) ==
    IF s = <<>> THEN <<>>
    ELSE LET i == CHOOSE j \in DOMAIN s : \A k \in DOMAIN s : s[j] >= s[k]
             rest == [k \in 1..(Len(s) - 1) |-> IF k < i THEN s[k] ELSE s[k + 1]]
         IN <<s[i]>> \o SortedDesc(rest)

\* ============================================================= Phylogeny

Clusters(n) == 1..(n + 1)

\* the mutant compares strictly
FitsStrict(ccf, ccf_remaining) == ccf < ccf_remaining
\* the test of line 463
Fits(ccf, ccf_remaining) == ccf <= ccf_remaining

\* the mutant forgets to charge the child to the parent's budget
SpendNothing(ccf_remaining, ccf) == ccf_remaining
\* the budget update of line 468
Spend(ccf_remaining, ccf) == ccf_remaining - ccf

\* lines 452-458: the locals of make_phylogeny before the while loop, for
\* the drawn vector `draws` (np.random.rand(num_subclones))
PhyStart(draws) ==
    LET srt == SortedDesc(draws)
        n == Len(draws)
    IN [parent_dict |-> [c \in {1} |-> None],
        ccfs |-> [c \in Clusters(n) |-> IF c = 1 THEN CcfScale ELSE srt[c - 1]],
        unassigned |-> [i \in 1..n |-> i + 1],
        parent_queue |-> <<1>>]

RECURSIVE InnerFor(_, _, _, _)
\* lines 462-468: the for loop over unassigned.copy() for one parent
InnerFor(scan, st, parent, ccf_remaining) ==
    IF scan = <<>> THEN st
    ELSE LET c == Head(scan) IN
         IF Fits(st.ccfs[c], ccf_remaining)
         THEN InnerFor(Tail(scan),
                       [st EXCEPT !.unassigned = RemoveFirst(@, c),
                                  !.parent_queue = Append(@, c),
                                  !.parent_dict = (c :> parent) @@ @],
                       parent, Spend(ccf_remaining, st.ccfs[c]))
         ELSE InnerFor(Tail(scan), st, parent, ccf_remaining)

\* lines 460-468: one iteration of the while loop (the queue is not empty)
PhyIter(st) ==
    LET parent == Head(st.parent_queue)
        popped == [st EXCEPT !.parent_queue = Tail(@)]
    IN InnerFor(st.unassigned, popped, parent, st.ccfs[parent])

RECURSIVE PhyRun(_)
\* lines 459-470: the while loop run to its end; popleft() on an empty
\* deque raises IndexError
PhyRun(st) ==
    IF Len(st.unassigned) = 0 THEN [ok |-> TRUE, st |-> st]
    ELSE IF st.parent_queue = <<>> THEN [ok |-> FALSE, st |-> st]
    ELSE PhyRun(PhyIter(st))

make_phylogeny(draws) == PhyRun(PhyStart(draws))

\* lines 479-481: one iteration of get_lineage's while loop
LineageIter(pars, node, cluster_list) ==
    [node |-> pars[node], cluster_list |-> Append(cluster_list, node)]

RECURSIVE LineageRun(_, _, _)
LineageRun(pars, node, cluster_list) ==
    IF node = None THEN cluster_list
    ELSE LET nx == LineageIter(pars, node, cluster_list)
         IN LineageRun(pars, nx.node, nx.cluster_list)

\* get_lineage(node)[0] on a parents map in which the walk ends
get_lineage(pars, node) == LineageRun(pars, node, <<>>)

Children(pars, p) == {c \in DOMAIN pars : pars[c] = p}


\* ========================================================== intervaltree
\* The operations of the intervaltree package that Chromosome calls.

Interval(begin, end, data) == [begin |-> begin, end |-> end, data |-> data]

\* line 10
Event(type, allele, cluster_num, cn_change) ==
    [type |-> type, allele |-> allele, cluster_num |-> cluster_num,
     cn_change |-> cn_change]

\* tree[begin:end] = data, IntervalTree.add: a set insertion
TreeAdd(tree, iv) == tree \cup {iv}

\* tree.at(p), tree[p]
At(tree, p) == {iv \in tree : iv.begin <= p /\ p < iv.end}

\* tree.slice(point): cut every interval that strictly contains point
slice(tree, point) ==
    LET hitlist == {iv \in At(tree, point) : iv.begin < point}
        insertions == {Interval(iv.begin, point, iv.data) : iv \in hitlist}
                      \cup {Interval(point, iv.end, iv.data) : iv \in hitlist}
    IN (tree \ hitlist) \cup insertions

\* the mutant clips to the query range instead of selecting enveloped intervals
envelopClipToQuery(tree, begin, end) ==
    IF begin >= end THEN {}
    ELSE {Interval(begin, end, iv.data) :
            iv \in {j \in tree : j.begin < end /\ j.end > begin}}
\* tree.envelop(begin, end): the intervals lying completely inside
envelop(tree, begin, end) ==
    IF begin >= end THEN {}
    ELSE {iv \in tree : iv.begin >= begin /\ iv.end <= end}

boundary_table(tree) == {iv.begin : iv \in tree} \cup {iv.end : iv \in tree}

\* tree.split_overlaps(): cut every interval at every boundary of the tree;
\* the pieces are collected in a set
split_overlaps(tree) ==
    LET bounds == boundary_table(tree) IN
    IF tree = {} \/ Cardinality(bounds) = 2 THEN tree
    ELSE UNION {{Interval(lb, CHOOSE ub \in bounds :
                                 ub > lb /\ \A x \in bounds : ~(lb < x /\ x < ub),
                           iv.data) : iv \in At(tree, lb)}
                : lb \in {b \in bounds : \E x \in bounds : x > b}}

\* string order of the Event fields, as Python compares the namedtuples
TypeRank(t) == IF t = "arm" THEN 1 ELSE IF t = "focal" THEN 2 ELSE 3
AlleleRank(a) == IF a = "maternal" THEN 1 ELSE 2

IvKey(iv) == <<iv.begin, iv.end, TypeRank(iv.data.type), AlleleRank(iv.data.allele),
               iv.data.cluster_num, iv.data.cn_change>>

RECURSIVE LexLess(_, _)
LexLess(a, b) ==
    IF a = <<>> THEN FALSE
    ELSE IF Head(a) # Head(b) THEN Head(a) < Head(b)
    ELSE LexLess(Tail(a), Tail(b))

RECURSIVE SortedIntervals(_)
\* sorted(tree.all_intervals)
SortedIntervals(tree) ==
    IF tree = {} THEN <<>>
    ELSE LET lo == CHOOSE x \in tree :
                     \A y \in tree \ {x} : LexLess(IvKey(x), IvKey(y))
         IN <<lo>> \o SortedIntervals(tree \ {lo})

RECURSIVE MergeFold(_, _)
\* the loop of merge_overlaps (strict=True): an interval that starts before
\* the end of the last series joins it; `datas` lists the data a series has
\* passed to the data_reducer, in order
MergeFold(sorted, merged) ==
    IF sorted = <<>> THEN merged
    ELSE LET higher == Head(sorted)
             n == Len(merged)
         IN IF n > 0 /\ higher.begin < merged[n].end
            THEN MergeFold(Tail(sorted),
                   [merged EXCEPT ![n] =
                      [begin |-> @.begin, end |-> Max(@.end, higher.end),
                       datas |-> Append(@.datas, higher.data)]])
            ELSE MergeFold(Tail(sorted),
                   Append(merged, [begin |-> higher.begin, end |-> higher.end,
                                   datas |-> <<higher.data>>]))

MergeSeries(tree) == Range(MergeFold(SortedIntervals(tree), <<>>))

\* ============================================================ Chromosome

Alleles == {"paternal", "maternal"}

\* lines 423-425
sum_levels(old, new) ==
    Event(old.type, old.allele, None, old.cn_change + new.cn_change)

\* lines 427-429
specify_levels(old, new) ==
    [major |-> Max(old.cn_change, new.cn_change),
     minor |-> Min(old.cn_change, new.cn_change)]

RECURSIVE ReduceSum(_, _)
ReduceSum(current_reduced, datas) ==
    IF datas = <<>> THEN current_reduced
    ELSE ReduceSum(sum_levels(current_reduced, Head(datas)), Tail(datas))

\* tree.merge_overlaps(data_reducer=self.sum_levels)
merge_overlaps_sum(tree) ==
    {Interval(s.begin, s.end, ReduceSum(s.datas[1], Tail(s.datas))) :
        s \in MergeSeries(tree)}

\* lines 344-348
NewChromosome(chr_name, chr_length) ==
    [chr_name |-> chr_name, chr_length |-> chr_length,
     paternal_tree |-> {}, maternal_tree |-> {}]

TreeOf(chromosome, allele) ==
    IF allele = "paternal" THEN chromosome.paternal_tree
    ELSE chromosome.maternal_tree

\* lines 350-354
add_seg(chromosome, type, allele, cluster_num, cn_change, start, end) ==
    IF allele = "paternal"
    THEN [chromosome EXCEPT !.paternal_tree =
            TreeAdd(@, Interval(start, end, Event(type, allele, cluster_num, cn_change)))]
    ELSE [chromosome EXCEPT !.maternal_tree =
            TreeAdd(@, Interval(start, end, Event(type, allele, cluster_num, cn_change)))]

\* lines 356-357
add_seg_interval(chromosome, type, cluster_num, cn_change, interval) ==
    add_seg(chromosome, type, interval.data.allele, cluster_num, cn_change,
            interval.begin, interval.end)

\* the Interval that add_seg_interval hands to the tree
SegInterval(type, cluster_num, cn_change, interval) ==
    Interval(interval.begin, interval.end,
             Event(type, interval.data.allele, cluster_num, cn_change))

\* the mutant lets every cluster in
InLineageAny(cluster_num, lineage_clusters) == TRUE
\* the membership test of lines 367 and 377
InLineage(cluster_num, lineage_clusters) == cluster_num \in Range(lineage_clusters)

\* lines 362-370 (and 372-380): one allele of calc_current_cnv_lineage
LineageTree(tree, start, end, lineage_clusters) ==
    LET intervals == slice(slice(tree, start), end)
        kept == {i \in envelop(intervals, start, end) :
                    InLineage(i.data.cluster_num, lineage_clusters)}
    IN merge_overlaps_sum(split_overlaps(kept))

\* lines 359-382
calc_current_cnv_lineage(chromosome, start, end, cluster_num, pars) ==
    LET lineage_clusters == get_lineage(pars, cluster_num)
    IN [pat_tree |-> LineageTree(chromosome.paternal_tree, start, end, lineage_clusters),
        mat_tree |-> LineageTree(chromosome.maternal_tree, start, end, lineage_clusters)]

\* lines 385-390 (and 392-397): one allele of calc_full_cnv
FullTree(tree, ccf) ==
    LET weighted == {Interval(i.begin, i.end,
                        Event(i.data.type, i.data.allele, i.data.cluster_num,
                              i.data.cn_change * ccf[i.data.cluster_num])) : i \in tree}
    IN merge_overlaps_sum(split_overlaps(weighted))

\* lines 384-400
calc_full_cnv(chromosome, ccf) ==
    [pat_tree |-> FullTree(chromosome.paternal_tree, ccf),
     mat_tree |-> FullTree(chromosome.maternal_tree, ccf)]

\* lines 402-410: the rows of the segment table; a series that is not a
\* pair leaves no {major, minor} dict in segment.data, and the row lookup
\* raises TypeError
get_cnv_df(chr_name, pat_tree, mat_tree) ==
    LET both_alleles == split_overlaps(pat_tree \cup mat_tree)
        series == MergeSeries(both_alleles)
    IN IF \E s \in series : Len(s.datas) # 2
       THEN [raised |-> TRUE, rows |-> {}]
       ELSE [raised |-> FALSE,
             rows |-> {[Chromosome |-> chr_name, Start |-> s.begin, End |-> s.end,
                        major |-> specify_levels(s.datas[1], s.datas[2]).major,
                        minor |-> specify_levels(s.datas[1], s.datas[2]).minor] :
                          s \in series}]

\* =========================================================== CNV_Profile

\* lines 16-21, 50: the contig sizes given to the constructor (two contigs)
Contigs == {"1", "2"}
csize == [chrom \in Contigs |-> IF chrom = "1" THEN ChromLen ELSE 2]

\* line 37: the default centromere, int(size / 2)
cent_loc == [chrom \in Contigs |-> csize[chrom] \div 2]

\* lines 58-67
init_all_chrom ==
    [chrom \in Contigs |->
        add_seg(add_seg(NewChromosome(chrom, csize[chrom]),
                        "haploid", "maternal", 1, 1, 1, csize[chrom]),
                "haploid", "paternal", 1, 1, 1, csize[chrom])]

\* the history of add_seg calls made by init_all_chrom
InitAdded ==
    [chrom \in Contigs |->
        SetToBag({Interval(1, csize[chrom], Event("haploid", a, 1, 1)) : a \in Alleles})]

\* lines 185-186
calculate_cnv_lineage(trees, pars, chrom, start, end, cluster_num) ==
    calc_current_cnv_lineage(trees[chrom], start, end, cluster_num, pars)

\* lines 188-193
calculate_cnv_profile(trees, ccf) ==
    [chrom \in Contigs |-> calc_full_cnv(trees[chrom], ccf)]

\* lines 195-203: the segment table of every contig
calculate_df_profiles(trees, cnv_trees) ==
    [chrom \in Contigs |->
        get_cnv_df(trees[chrom].chr_name, cnv_trees[chrom].pat_tree,
                   cnv_trees[chrom].mat_tree)]

\* a set of [interval, cn_change] pairs: the add_seg_interval calls of one
\* event, applied to the chromosome
RECURSIVE ApplyChanges(_, _, _, _)
ApplyChanges(chromosome, type, cluster_num, changes) ==
    IF changes = {} THEN chromosome
    ELSE LET ch == CHOOSE x \in changes : TRUE
         IN ApplyChanges(add_seg_interval(chromosome, type, cluster_num,
                                          ch.cn_change, ch.interval),
                         type, cluster_num, changes \ {ch})

ChangesBag(type, cluster_num, changes) ==
    SetToBag({SegInterval(type, cluster_num, ch.cn_change, ch.interval) :
                ch \in changes})

\* the commit of one event: the layers are stored and logged, the call counted
Commit(chrom, type, cluster_num, changes) ==
    /\ event_trees' = [event_trees EXCEPT ![chrom] =
                          ApplyChanges(@, type, cluster_num, changes)]
    /\ added' = [added EXCEPT ![chrom] = @ (+) ChangesBag(type, cluster_num, changes)]
    /\ n_events' = n_events + 1

\* lines 92-100: the region of an arm event; restrict is rand() > p_whole,
\* upper is rand() > 0.5
ArmRegion(chrom, restrict, upper) ==
    [start |-> IF restrict /\ upper THEN cent_loc[chrom] ELSE 1,
     end |-> IF restrict /\ ~upper THEN cent_loc[chrom] ELSE csize[chrom]]

\* line 119: one term of weighted_del.  `==` binds looser than `*` and `/`:
\* the term is cn_change == (0 * (o.end - o.begin) / (end - start)), a bool
WeightedDelTerm(o, start, end) ==
    IF o.data.cn_change = (0 * (o.end - o.begin)) \div (end - start) THEN 1 ELSE 0

\* the mutant turns the comparison of line 120 around
DeletionAdjustInverted(other_int, start, end) ==
    LET weighted_del ==
            SumSet(other_int, [o \in other_int |-> WeightedDelTerm(o, start, end)])
    IN IF 10 * weighted_del < 3 THEN 0 ELSE 1
\* lines 117-120
DeletionAdjust(other_int, start, end) ==
    LET weighted_del ==
            SumSet(other_int, [o \in other_int |-> WeightedDelTerm(o, start, end)])
    IN IF 10 * weighted_del > 3 THEN 0 ELSE 1

\* the delta of each branch of lines 122-132
ArmDelta(level, deletion, full, deletion_adjust) ==
    IF deletion /\ full THEN (-level) * deletion_adjust
    ELSE IF deletion THEN (IF level = 0 \/ deletion_adjust = 0 THEN 0 ELSE -1)
    ELSE level

\* lines 106-132: the add_seg_interval calls of add_arm
ArmChanges(trees, pars, cluster_num, chrom, start, end, allele, deletion, full) ==
    LET cur == calculate_cnv_lineage(trees, pars, chrom, start, end, cluster_num)
        desired_int == IF allele = "paternal" THEN cur.pat_tree ELSE cur.mat_tree
        other_int == IF allele = "maternal" THEN cur.pat_tree ELSE cur.mat_tree
        deletion_adjust == IF deletion THEN DeletionAdjust(other_int, start, end) ELSE 1
    IN {[interval |-> i,
         cn_change |-> ArmDelta(i.data.cn_change, deletion, full, deletion_adjust)] :
            i \in desired_int}

\* lines 86-132.  The draws: restrict (rand() > p_whole, impossible when
\* p_whole = 1), upper, allele, deletion (rand() < 0.6), full (rand() < 0.3)
add_arm(cluster_num, p_whole, chrom, restrict, upper, allele, deletion, full) ==
    LET reg == ArmRegion(chrom, restrict, upper) IN
    /\ restrict => p_whole < 1
    /\ past_end' = past_end
    /\ Commit(chrom, "arm", cluster_num,
              ArmChanges(event_trees, parents, cluster_num, chrom, reg.start, reg.end,
                         allele, deletion, full))

\* lines 141-144: the region of a focal event; randint's upper end is exclusive
FocalStarts(chrom, focal_length) == 1..(Max(2, csize[chrom] - focal_length) - 1)

\* line 157, for a draw k of np.random.poisson(curr_level / 10)
ChosenDel(curr_level, k) == IF curr_level # 0 THEN Max(1, curr_level - k) ELSE 0

\* the mutant amplifies a fully deleted interval too
ChosenAmpAlways(curr_level, cnv_level) == cnv_level
\* line 163
ChosenAmp(curr_level, cnv_level) == IF curr_level # 0 THEN cnv_level ELSE 0

\* lines 155-158: the outcomes of the deletion loop.  np.random.poisson
\* raises ValueError for a negative rate: the loop then stops at the first
\* interval of negative level it meets, and the intervals it visited before
\* (the tree iterates in no fixed order) have been committed
FocalDeletionOutcomes(desired_int) ==
    LET negs == {i \in desired_int : i.data.cn_change < 0}
        oks == desired_int \ negs
        visited == IF negs = {} THEN {oks} ELSE SUBSET oks
    IN {{[interval |-> i, cn_change |-> -ChosenDel(i.data.cn_change, k[i])] : i \in v} :
            v \in visited, k \in [oks -> 0..MaxPoisson]}

\* lines 161-164, for a draw cnv_level of np.random.poisson(0.8) + 1
FocalAmplification(desired_int, cnv_level) ==
    {[interval |-> i, cn_change |-> ChosenAmp(i.data.cn_change, cnv_level)] :
        i \in desired_int}

\* lines 150-164
FocalOutcomes(trees, pars, cluster_num, chrom, start_pos, end_pos, allele, deletion) ==
    LET cur == calculate_cnv_lineage(trees, pars, chrom, start_pos, end_pos, cluster_num)
        desired_int == IF allele = "paternal" THEN cur.pat_tree ELSE cur.mat_tree
    IN IF deletion THEN FocalDeletionOutcomes(desired_int)
       ELSE {FocalAmplification(desired_int, cnv_level) :
                cnv_level \in 1..(MaxPoisson + 1)}

\* lines 136-164.  The draws: chrom, focal_length, start_pos, allele,
\* deletion (rand() < 0.5) and the Poisson draws inside FocalOutcomes
add_focal(cluster_num, chrom, focal_length, start_pos, allele, deletion) ==
    /\ start_pos \in FocalStarts(chrom, focal_length)
    /\ past_end' = (past_end \/ start_pos + focal_length > csize[chrom])
    /\ \E changes \in FocalOutcomes(event_trees, parents, cluster_num, chrom, start_pos,
                                    start_pos + focal_length, allele, deletion) :
          Commit(chrom, "focal", cluster_num, changes)

\* ------------------------------------------------- the profile under calls
GenIdle == [pc |-> "idle"]

\* CNV_Profile(num_subclones): lines 49-56, for the draws of make_phylogeny.
\* The draws are positive here; a draw of exactly 0.0 is covered by InitPhy
Init ==
    /\ \E n \in 0..MaxSubclones : \E draws \in [1..n -> 1..(CcfScale - 1)] :
          LET r == make_phylogeny(draws) IN
          /\ r.ok
          /\ num_subclones = n
          /\ parents = r.st.parent_dict
          /\ ccfs = r.st.ccfs
          /\ unassigned = r.st.unassigned
          /\ parent_queue = r.st.parent_queue
    /\ phy_pc = "done"
    /\ lin_node = None /\ lin_list = <<>> /\ lin_pc = "idle"
    /\ event_trees = init_all_chrom
    /\ added = InitAdded
    /\ n_events = 0
    /\ past_end = FALSE
    /\ gen = GenIdle

\* a caller's add_arm(cluster_num, p_whole, chrom)
AddArm ==
    /\ n_events < MaxEvents
    /\ \E cluster_num \in Clusters(num_subclones), p_whole \in {0, 1}, chrom \in Contigs,
          restrict \in BOOLEAN, upper \in BOOLEAN, allele \in Alleles,
          deletion \in BOOLEAN, full \in BOOLEAN :
          add_arm(cluster_num, p_whole, chrom, restrict, upper, allele, deletion, full)
    /\ UNCHANGED <<phy_vars, lin_vars, gen>>

\* a caller's add_focal(cluster_num)
AddFocal ==
    /\ n_events < MaxEvents
    /\ \E cluster_num \in Clusters(num_subclones), chrom \in Contigs,
          focal_length \in 0..MaxFocalLen, start_pos \in 1..ChromLen,
          allele \in Alleles, deletion \in BOOLEAN :
          add_focal(cluster_num, chrom, focal_length, start_pos, allele, deletion)
    /\ UNCHANGED <<phy_vars, lin_vars, gen>>

Next == AddArm \/ AddFocal

Spec == Init /\ [][Next]_vars

\* the first call on a freshly constructed profile
FirstArm == n_events = 0 /\ AddArm
FirstFocal == n_events = 0 /\ AddFocal
NextFirst == FirstArm \/ FirstFocal

SpecFirst == Init /\ [][NextFirst]_vars


\* a caller that makes arm-level calls only, up to MaxArmEvents of them
ArmCall ==
    /\ n_events < MaxArmEvents
    /\ \E cluster_num \in Clusters(num_subclones), p_whole \in {0, 1}, chrom \in Contigs,
          restrict \in BOOLEAN, upper \in BOOLEAN, allele \in Alleles,
          deletion \in BOOLEAN, full \in BOOLEAN :
          add_arm(cluster_num, p_whole, chrom, restrict, upper, allele, deletion, full)
    /\ UNCHANGED <<phy_vars, lin_vars, gen>>

SpecArm == Init /\ [][ArmCall]_vars

\* ------------------------------------- make_phylogeny and get_lineage, stepwise
\* Phylogeny(num_subclones), lines 445-458, stopped before the while loop
InitPhy ==
    /\ \E n \in 0..MaxSubclones : \E draws \in [1..n -> 0..(CcfScale - 1)] :
          LET st == PhyStart(draws) IN
          /\ num_subclones = n
          /\ parents = st.parent_dict
          /\ ccfs = st.ccfs
          /\ unassigned = st.unassigned
          /\ parent_queue = st.parent_queue
    /\ phy_pc = "loop"
    /\ lin_node = None /\ lin_list = <<>> /\ lin_pc = "idle"
    /\ event_trees = init_all_chrom
    /\ added = InitAdded
    /\ n_events = 0
    /\ past_end = FALSE
    /\ gen = GenIdle

\* lines 459-470: the loop test, then one iteration or the return
MakePhylogenyStep ==
    /\ phy_pc = "loop"
    /\ LET st == [parent_dict |-> parents, ccfs |-> ccfs,
                  unassigned |-> unassigned, parent_queue |-> parent_queue]
           nx == IF Len(unassigned) > 0 /\ parent_queue # <<>> THEN PhyIter(st) ELSE st
       IN /\ parents' = nx.parent_dict
          /\ ccfs' = nx.ccfs
          /\ unassigned' = nx.unassigned
          /\ parent_queue' = nx.parent_queue
          /\ phy_pc' = IF Len(unassigned) = 0 THEN "done"
                       ELSE IF parent_queue = <<>> THEN "IndexError"
                       ELSE "loop"
    /\ UNCHANGED <<num_subclones, lin_vars, prof_vars, gen>>

\* cluster_list is tracked in windows of WalkCap entries: a walk that ends
\* collects fewer than WalkCap entries in an acyclic map, so its list is exact;
\* a longer walk starts the next window with the entry it appends
WalkCap == MaxSubclones + 3

\* get_lineage(node), lines 472-477
GetLineageCall ==
    /\ phy_pc = "done"
    /\ lin_pc \in {"idle", "returned", "KeyError"}
    /\ \E node \in DOMAIN parents :
          /\ lin_node' = node
          /\ lin_list' = <<>>
          /\ lin_pc' = "walk"
    /\ UNCHANGED <<phy_vars, prof_vars, gen>>

\* lines 479-483: the loop test, then one iteration or the return; a node
\* that is no key of parents raises KeyError
GetLineageStep ==
    /\ lin_pc = "walk"
    /\ IF lin_node = None
       THEN lin_pc' = "returned" /\ UNCHANGED <<lin_node, lin_list>>
       ELSE IF lin_node \notin DOMAIN parents
       THEN lin_pc' = "KeyError" /\ UNCHANGED <<lin_node, lin_list>>
       ELSE LET nx == LineageIter(parents, lin_node, lin_list) IN
            /\ lin_node' = nx.node
            /\ lin_list' = IF Len(lin_list) < WalkCap THEN nx.cluster_list
                                                       ELSE <<lin_node>>
            /\ lin_pc' = "walk"
    /\ UNCHANGED <<phy_vars, prof_vars, gen>>

NextPhy == MakePhylogenyStep \/ GetLineageCall \/ GetLineageStep

SpecPhy == InitPhy /\ [][NextPhy]_vars
SpecPhyFair == SpecPhy /\ WF_vars(MakePhylogenyStep) /\ WF_vars(GetLineageStep)

\* ------------------------- get_lineage on a parents map assigned by a caller
\* parents and ccfs are public attributes: any map over the cluster ids,
\* cyclic or dangling ones included, can be stored in them
InitLineage ==
    /\ num_subclones = MaxSubclones
    /\ parents \in [Clusters(MaxSubclones) -> 0..(MaxSubclones + 2)]
    /\ ccfs = [c \in Clusters(MaxSubclones) |-> IF c = 1 THEN CcfScale ELSE 0]
    /\ unassigned = <<>>
    /\ parent_queue = <<>>
    /\ phy_pc = "done"
    /\ lin_node = None /\ lin_list = <<>> /\ lin_pc = "idle"
    /\ event_trees = init_all_chrom
    /\ added = InitAdded
    /\ n_events = 0
    /\ past_end = FALSE
    /\ gen = GenIdle

NextLineage == GetLineageCall \/ GetLineageStep

\* a running call keeps running: the interpreter takes the loop's next step
SpecLineage == InitLineage /\ [][NextLineage]_vars /\ WF_vars(GetLineageStep)


\* ------------------------------------------------------ add_cnv_events
\* len(np.arange(num / den)) for num >= 0, den > 0
ArangeLen(num, den) == IF num <= 0 THEN 0 ELSE (num + den - 1) \div den

RECURSIVE Repeat(_, _)
Repeat(x, k) == IF k <= 0 THEN <<>> ELSE <<x>> \o Repeat(x, k - 1)

\* lines 81 and 83: the bound of a subclone's loops (ratio_clonal is
\* ratio / RatioScale)
SubclonalCount(num, ratio, n) == ArangeLen(num * ratio, RatioScale * n)

\* lines 74 and 76
ClonalCount(num, ratio) == ArangeLen(num * ratio, RatioScale)

RECURSIVE SubclonalCalls(_, _, _, _, _)
\* lines 80-84, from cluster c on
SubclonalCalls(c, arm_num, focal_num, ratio, n) ==
    IF c > n + 1 THEN <<>>
    ELSE Repeat([kind |-> "arm", cluster_num |-> c], SubclonalCount(arm_num, ratio, n))
         \o Repeat([kind |-> "focal", cluster_num |-> c], SubclonalCount(focal_num, ratio, n))
         \o SubclonalCalls(c + 1, arm_num, focal_num, ratio, n)

\* the mutant runs the subclonal loops before the clonal ones
ScheduleSubclonalFirst(arm_num, focal_num, ratio, n) ==
    SubclonalCalls(2, arm_num, focal_num, ratio, n)
    \o Repeat([kind |-> "arm", cluster_num |-> 1], ClonalCount(arm_num, ratio))
    \o Repeat([kind |-> "focal", cluster_num |-> 1], ClonalCount(focal_num, ratio))
\* lines 74-84: the add_arm / add_focal calls of add_cnv_events, in order
Schedule(arm_num, focal_num, ratio, n) ==
    Repeat([kind |-> "arm", cluster_num |-> 1], ClonalCount(arm_num, ratio))
    \o Repeat([kind |-> "focal", cluster_num |-> 1], ClonalCount(focal_num, ratio))
    \o SubclonalCalls(2, arm_num, focal_num, ratio, n)

GenSchedule == Schedule(gen.arm_num, gen.focal_num, gen.ratio, num_subclones)

\* add_cnv_events(arm_num, focal_num, p_whole, ratio_clonal) is called
AddCnvEventsCall ==
    /\ gen.pc = "idle"
    /\ \E arm_num \in 0..MaxArmNum, focal_num \in 0..MaxFocalNum,
          ratio \in 0..RatioScale, p_whole \in {0, 1} :
          /\ Len(Schedule(arm_num, focal_num, ratio, num_subclones)) <= MaxEvents
          /\ gen' = [pc |-> "run", arm_num |-> arm_num, focal_num |-> focal_num,
                     ratio |-> ratio, p_whole |-> p_whole, pos |-> 1,
                     arm_calls |-> [c \in Clusters(num_subclones) |-> 0],
                     focal_calls |-> [c \in Clusters(num_subclones) |-> 0]]
    /\ UNCHANGED <<phy_vars, lin_vars, prof_vars>>

\* lines 75 and 82: the next call is self.add_arm(cluster, p_whole)
GenArm ==
    /\ gen.pc = "run"
    /\ gen.pos <= Len(GenSchedule)
    /\ GenSchedule[gen.pos].kind = "arm"
    /\ LET c == GenSchedule[gen.pos].cluster_num IN
       /\ \E chrom \in Contigs, restrict \in BOOLEAN, upper \in BOOLEAN,
             allele \in Alleles, deletion \in BOOLEAN, full \in BOOLEAN :
             add_arm(c, gen.p_whole, chrom, restrict, upper, allele, deletion, full)
       /\ gen' = [gen EXCEPT !.pos = @ + 1, !.arm_calls[c] = @ + 1]
    /\ UNCHANGED <<phy_vars, lin_vars>>

\* lines 77 and 84: the next call is self.add_focal(cluster, median_focal_length)
GenFocal ==
    /\ gen.pc = "run"
    /\ gen.pos <= Len(GenSchedule)
    /\ GenSchedule[gen.pos].kind = "focal"
    /\ LET c == GenSchedule[gen.pos].cluster_num IN
       /\ \E chrom \in Contigs, focal_length \in 0..MaxFocalLen,
             start_pos \in 1..ChromLen, allele \in Alleles, deletion \in BOOLEAN :
             add_focal(c, chrom, focal_length, start_pos, allele, deletion)
       /\ gen' = [gen EXCEPT !.pos = @ + 1, !.focal_calls[c] = @ + 1]
    /\ UNCHANGED <<phy_vars, lin_vars>>

\* the loops are exhausted: add_cnv_events returns
AddCnvEventsReturn ==
    /\ gen.pc = "run"
    /\ gen.pos > Len(GenSchedule)
    /\ gen' = [gen EXCEPT !.pc = "done"]
    /\ UNCHANGED <<phy_vars, lin_vars, prof_vars>>

\* add_cnv_events(arm_num, 0, p_whole, ratio_clonal): a call that asks for
\* arm-level events only, up to MaxArmEvents add_arm calls
AddCnvEventsArmCall ==
    /\ gen.pc = "idle"
    /\ \E arm_num \in 1..MaxArmNum, ratio \in 0..RatioScale, p_whole \in {0, 1} :
          /\ Len(Schedule(arm_num, 0, ratio, num_subclones)) <= MaxArmEvents
          /\ gen' = [pc |-> "run", arm_num |-> arm_num, focal_num |-> 0,
                     ratio |-> ratio, p_whole |-> p_whole, pos |-> 1,
                     arm_calls |-> [c \in Clusters(num_subclones) |-> 0],
                     focal_calls |-> [c \in Clusters(num_subclones) |-> 0]]
    /\ UNCHANGED <<phy_vars, lin_vars, prof_vars>>

NextGenArm == AddCnvEventsArmCall \/ GenArm \/ AddCnvEventsReturn

SpecGenArm == Init /\ [][NextGenArm]_vars

NextGen == AddCnvEventsCall \/ GenArm \/ GenFocal \/ AddCnvEventsReturn

SpecGen == Init /\ [][NextGen]_vars


\* ================================================================ claims

Positions(chrom) == 1..(csize[chrom] - 1)

\* the value a flattened tree reports at position p
ValueAt(tree, p) ==
    LET cover == At(tree, p) IN SumSet(cover, [iv \in cover |-> iv.data.cn_change])

\* the lineage-scoped CN of cluster_num at position p of one allele
LevelAt(chromosome, allele, cluster_num, pars, p) ==
    LET cur == calc_current_cnv_lineage(chromosome, 1, chromosome.chr_length,
                                        cluster_num, pars)
    IN ValueAt(IF allele = "paternal" THEN cur.pat_tree ELSE cur.mat_tree, p)

FullTreeOf(profile, chrom, allele) ==
    IF allele = "paternal" THEN profile[chrom].pat_tree ELSE profile[chrom].mat_tree

Segments(tree) == {<<iv.begin, iv.end, iv.data.cn_change>> : iv \in tree}

RECURSIVE ReachesRoot(_, _, _)
ReachesRoot(pars, node, fuel) ==
    IF node = 1 THEN TRUE
    ELSE IF fuel = 0 \/ node \notin DOMAIN pars THEN FALSE
    ELSE ReachesRoot(pars, pars[node], fuel - 1)

\* C1: in every built phylogeny the root has CCF 1 and the CCFs of the direct
\* children of every cluster sum to at most the cluster's own CCF.
C1_ChildrenSum ==
    phy_pc = "done" =>
        /\ ccfs[1] = CcfScale
        /\ \A p \in DOMAIN parents :
              SumSet(Children(parents, p), ccfs) <= ccfs[p]

\* C1 witness: a built phylogeny in which a parent has two children that use
\* up its budget exactly.
C1_Witness ==
    /\ phy_pc = "done"
    /\ \E p \in DOMAIN parents :
          /\ Cardinality(Children(parents, p)) >= 2
          /\ \A c \in Children(parents, p) : ccfs[c] > 0
          /\ SumSet(Children(parents, p), ccfs) = ccfs[p]

C7_Safe ==
    /\ phy_pc # "IndexError"
    /\ (phy_pc = "loop" /\ Len(unassigned) > 0) => parent_queue # <<>>
    /\ phy_pc = "done" =>
          /\ DOMAIN parents = Clusters(num_subclones)
          /\ \A c \in Clusters(num_subclones) \ {1} :
                /\ parents[c] \in Clusters(num_subclones)
                /\ ReachesRoot(parents, c, num_subclones)

\* C7: make_phylogeny terminates for every draw of CCFs; while a cluster is
\* unassigned the queue of parents is not empty, and at the end every cluster
\* 2..num_subclones+1 has a parent and its parents lead to the root 1.
C7_Terminates == [](C7_Safe) /\ <>(phy_pc = "done")

\* C7 witness: a built phylogeny with two clusters of equal CCF, the second
\* attached below the first because the root's budget was used up.
C7_Witness ==
    /\ phy_pc = "done"
    /\ num_subclones >= 2
    /\ ccfs[2] = ccfs[3]
    /\ parents[3] = 2

\* C6 (as claimed): every call of get_lineage ends, with a result or an error,
\* whatever the parents map holds.
C6_LineageStops == (lin_pc = "walk") ~> (lin_pc \in {"returned", "KeyError"})

LedgerSum(chrom, allele, p) ==
    LET cover == {iv \in BagToSet(added[chrom]) :
                    iv.data.allele = allele /\ iv.begin <= p /\ p < iv.end}
    IN SumSet(cover, [iv \in cover |->
                CopiesIn(iv, added[chrom]) * iv.data.cn_change
                    * ccfs[iv.data.cluster_num]])

\* C2 (as claimed): at every position of every allele, calc_full_cnv reports
\* the sum of cn_change * ccfs[cluster_num] over every layer handed to
\* add_seg that covers the position.
C2_Conservation ==
    \A chrom \in Contigs, allele \in Alleles : \A p \in Positions(chrom) :
        ValueAt(FullTreeOf(calculate_cnv_profile(event_trees, ccfs), chrom, allele), p)
            = LedgerSum(chrom, allele, p)

Regions(chrom) ==
    {r \in (1..(csize[chrom] + 1)) \X (1..(csize[chrom] + 1)) : r[1] < r[2]}

\* C3: for every cluster and region, taking a layer of a cluster outside the
\* cluster's lineage out of the tree leaves the result of
\* calc_current_cnv_lineage as it is.
C3_LineageIsolation ==
    \A chrom \in Contigs, c \in Clusters(num_subclones), allele \in Alleles :
        LET tree == TreeOf(event_trees[chrom], allele)
            lineage == get_lineage(parents, c)
        IN \A l \in {x \in tree : x.data.cluster_num \notin Range(lineage)} :
              \A r \in Regions(chrom) :
                 LineageTree(tree \ {l}, r[1], r[2], lineage)
                    = LineageTree(tree, r[1], r[2], lineage)

\* C3 witness: a layer of nonzero delta stored by a sibling of cluster c, and
\* one stored by a descendant of c, on the same allele.
C3_Witness ==
    /\ \E chrom \in Contigs, allele \in Alleles, c \in Clusters(num_subclones) :
          \E l \in TreeOf(event_trees[chrom], allele) :
              /\ l.data.cn_change # 0
              /\ l.data.cluster_num # c
              /\ c # 1
              /\ parents[l.data.cluster_num] = parents[c]
    /\ \E chrom \in Contigs, allele \in Alleles, c \in Clusters(num_subclones) :
          \E l \in TreeOf(event_trees[chrom], allele) :
              /\ l.data.cn_change # 0
              /\ l.data.cluster_num # c
              /\ c \in Range(get_lineage(parents, l.data.cluster_num))

\* C4: a call of add_arm or add_focal for a cluster leaves every position of
\* the target allele at lineage-scoped CN 0 that was at 0 before the call.
C4_ZeroFloor ==
    [][\A chrom \in Contigs, allele \in Alleles :
         \A l \in TreeOf(event_trees'[chrom], allele)
                    \ TreeOf(event_trees[chrom], allele) :
            \A p \in Positions(chrom) :
               LevelAt(event_trees[chrom], allele, l.data.cluster_num, parents, p) = 0
                  => LevelAt(event_trees'[chrom], allele, l.data.cluster_num,
                             parents, p) = 0]_vars

\* C4 witness: after two calls, a layer of delta 0 lies over a position that
\* an earlier deletion of the same lineage had brought to CN 0.
C4_Witness ==
    /\ n_events = 2
    /\ \E chrom \in Contigs, allele \in Alleles : \E p \in Positions(chrom) :
          \E l0, l1 \in At(TreeOf(event_trees[chrom], allele), p) :
             /\ l0.data.type # "haploid" /\ l0.data.cn_change = 0
             /\ l1.data.cn_change < 0
             /\ l1.data.cluster_num \in Range(get_lineage(parents, l0.data.cluster_num))
             /\ LevelAt(event_trees[chrom], allele, l0.data.cluster_num, parents, p) = 0

\* the ratio the claim hands to the subclones: 1 - ratio_clonal
C5_Claimed(num, ratio, n) == ArangeLen(num * (RatioScale - ratio), RatioScale * n)

\* C5 (as claimed): add_cnv_events gives the truncal cluster the fraction
\* ratio_clonal of the arm and focal events and each subclone an equal share
\* of the remaining fraction 1 - ratio_clonal.
C5_Allocation ==
    gen.pc = "done" =>
        /\ gen.arm_calls[1] = ClonalCount(gen.arm_num, gen.ratio)
        /\ gen.focal_calls[1] = ClonalCount(gen.focal_num, gen.ratio)
        /\ \A c \in Clusters(num_subclones) \ {1} :
              /\ gen.arm_calls[c] = C5_Claimed(gen.arm_num, gen.ratio, num_subclones)
              /\ gen.focal_calls[c] = C5_Claimed(gen.focal_num, gen.ratio, num_subclones)

C8_Post(chrom, allele) ==
    LET profile == calculate_cnv_profile(event_trees, ccfs) IN
    \A c2 \in Contigs, a2 \in Alleles :
        Segments(FullTreeOf(profile, c2, a2))
            = {<<1, csize[c2], IF c2 = chrom /\ a2 = allele THEN 0 ELSE CcfScale>>}

\* C8: on a fresh profile, add_arm(1, p_whole = 1, chrom) in the deletion
\* branch (full or one copy) makes calc_full_cnv report 0 over the whole
\* contig for the target allele and one segment of value 1 for every other
\* allele and contig.
C8_TruncalDeletion ==
    [][\A chrom \in Contigs, allele \in Alleles, upper \in BOOLEAN, full \in BOOLEAN :
          (n_events = 0 /\ add_arm(1, 1, chrom, FALSE, upper, allele, TRUE, full))
             => C8_Post(chrom, allele)']_vars

\* C8 witness: the profile after that one call.
C8_Witness ==
    /\ n_events = 1
    /\ \E chrom \in Contigs, allele \in Alleles :
          /\ TreeOf(event_trees[chrom], allele)
                = {Interval(1, csize[chrom], Event("haploid", allele, 1, 1)),
                   Interval(1, csize[chrom], Event("arm", allele, 1, -1))}
          /\ C8_Post(chrom, allele)

\* C9: every stored layer lies inside the contig: 1 <= begin < end <= length.
C9_LayersInsideContig ==
    \A chrom \in Contigs, allele \in Alleles :
        \A iv \in TreeOf(event_trees[chrom], allele) :
            1 <= iv.begin /\ iv.begin < iv.end /\ iv.end <= csize[chrom]

\* C9 witness: one add_focal call whose end_pos lay past the contig end has
\* stored a layer.
C9_Witness ==
    /\ n_events = 1
    /\ past_end
    /\ \E chrom \in Contigs, allele \in Alleles :
          \E iv \in TreeOf(event_trees[chrom], allele) : iv.data.type = "focal"

\* C10 (as claimed): no two rows of a contig's segment table that touch carry
\* the same (major, minor) pair, and without events the table is one row
\* spanning the contig with major = minor = 1.
C10_MaximalRuns ==
    \A chrom \in Contigs :
        LET df == calculate_df_profiles(event_trees,
                      calculate_cnv_profile(event_trees, ccfs))[chrom]
        IN /\ ~df.raised
           /\ \A r1, r2 \in df.rows :
                 r1.End = r2.Start => <<r1.major, r1.minor>> # <<r2.major, r2.minor>>
           /\ n_events = 0 =>
                 df.rows = {[Chromosome |-> chrom, Start |-> 1, End |-> csize[chrom],
                             major |-> CcfScale, minor |-> CcfScale]}

\* the positions of [start, end) where the reference allele of the lineage of
\* cluster_num is at CN 0
C11_RefZeroPositions(cluster_num, chrom, start, end, allele) ==
    LET other == IF allele = "paternal" THEN "maternal" ELSE "paternal"
    IN {p \in start..(end - 1) :
           LevelAt(event_trees[chrom], other, cluster_num, parents, p) = 0}

\* the adjust factor the claim gives: 0 when the length-weighted fraction of
\* the region with the reference allele at CN 0 exceeds 0.3
C11_ClaimedAdjust(cluster_num, chrom, start, end, allele) ==
    IF 10 * Cardinality(C11_RefZeroPositions(cluster_num, chrom, start, end, allele))
          > 3 * (end - start)
    THEN 0 ELSE 1

C11_ClaimedChanges(cluster_num, chrom, start, end, allele, full) ==
    LET cur == calculate_cnv_lineage(event_trees, parents, chrom, start, end, cluster_num)
        desired_int == IF allele = "paternal" THEN cur.pat_tree ELSE cur.mat_tree
        adjust == C11_ClaimedAdjust(cluster_num, chrom, start, end, allele)
    IN {[interval |-> i, cn_change |-> ArmDelta(i.data.cn_change, TRUE, full, adjust)] :
           i \in desired_int}

\* C11 (as claimed): a deletion of add_arm records the deltas of a suppressed
\* deletion (all 0) exactly when the reference allele is at lineage-scoped
\* CN 0 on more than 0.3 of the region's length, and the deltas of an
\* unsuppressed deletion otherwise.
C11_Suppression ==
    [][\A cluster_num \in Clusters(num_subclones), p_whole \in {0, 1},
          chrom \in Contigs, restrict \in BOOLEAN, upper \in BOOLEAN,
          allele \in Alleles, full \in BOOLEAN :
          add_arm(cluster_num, p_whole, chrom, restrict, upper, allele, TRUE, full)
             => LET reg == ArmRegion(chrom, restrict, upper) IN
                added'[chrom] = added[chrom]
                   (+) ChangesBag("arm", cluster_num,
                          C11_ClaimedChanges(cluster_num, chrom, reg.start, reg.end,
                                             allele, full))]_vars

\* the layers one step hands to add_seg on a contig
NewLayers(chrom) == BagToSet(added'[chrom] (-) added[chrom])

\* C12 (as claimed): an amplification of add_arm for a cluster doubles the
\* cluster's lineage-scoped CN on the target allele at every position of the
\* chosen region, whatever events came before.  A layer of type arm with a
\* positive delta is recorded by the amplification branch only, with the
\* level it read as delta; positions read at level 0 get delta 0 and stay 0.
C12_ArmDoubling ==
    [][\A chrom \in Contigs :
          \A l \in NewLayers(chrom) :
             (l.data.type = "arm" /\ l.data.cn_change > 0)
                => \A p \in l.begin..(l.end - 1) :
                      /\ LevelAt(event_trees[chrom], l.data.allele, l.data.cluster_num,
                                 parents, p) = l.data.cn_change
                      /\ LevelAt(event_trees'[chrom], l.data.allele, l.data.cluster_num,
                                 parents, p) = 2 * l.data.cn_change]_vars

\* the clusters above cluster_num on its path to the root
StrictAncestors(pars, cluster_num) == Range(get_lineage(pars, cluster_num)) \ {cluster_num}

\* in a sequence of calls, no call of a cluster follows a call of one of its
\* descendants
AncestorsFirst(pars, calls) ==
    \A i, j \in DOMAIN calls :
        i < j => calls[j].cluster_num \notin StrictAncestors(pars, calls[i].cluster_num)

\* the clusters add_cnv_events has generated an event for so far
Called == IF gen.pc = "idle" THEN {}
          ELSE {c \in Clusters(num_subclones) : gen.arm_calls[c] + gen.focal_calls[c] > 0}

\* C13: every cluster's parent has a smaller id than the cluster (CCF ties
\* included); the calls add_cnv_events makes, for any arguments, put every
\* cluster after all its ancestors; and no step of add_cnv_events adds a
\* layer of a cluster that is an ancestor of a cluster that has already read
\* its lineage-scoped CN.
C13_AncestorsCommittedFirst ==
    /\ [](\A c \in DOMAIN parents \ {1} : parents[c] # None /\ parents[c] < c)
    /\ [](\A arm_num \in 0..(MaxArmNum + 2), focal_num \in 0..(MaxFocalNum + 2),
             ratio \in 0..RatioScale :
             AncestorsFirst(parents, Schedule(arm_num, focal_num, ratio, num_subclones)))
    /\ [][gen.pc = "run" /\ gen'.pc = "run" =>
             /\ \A chrom \in Contigs : \A l \in NewLayers(chrom) : \A d \in Called :
                    l.data.cluster_num \notin StrictAncestors(parents, d)
             /\ \A c \in Called' \ Called : \A d \in Called :
                    c \notin StrictAncestors(parents, d)]_vars

\* C13 witness: with tied CCFs, cluster 3 is the child of cluster 2, and
\* add_cnv_events has returned after an add_arm call for cluster 1, then for
\* cluster 2, then for cluster 3, the last one storing a layer of cluster 3.
C13_Witness ==
    /\ gen.pc = "done"
    /\ num_subclones >= 2
    /\ ccfs[2] = ccfs[3]
    /\ parents[3] = 2
    /\ Called = {1, 2, 3}
    /\ \E chrom \in Contigs, allele \in Alleles :
          \E l \in TreeOf(event_trees[chrom], allele) :
             l.data.type = "arm" /\ l.data.cluster_num = 3


====
